---- MODULE Spec2Model ----
(***************************************************************************)
(* Model of wnm_sharepoint_client.client.SharePointClient.move_file and    *)
(* of the remote document store it talks to.                               *)
(*                                                                         *)
(* The remote store is a map from paths (folder, name) to items (id,       *)
(* content).  Every remote call of move_file is one step of the model, so  *)
(* that a failure can be placed at each call separately.  A failed call    *)
(* (a response whose status raise_for_status rejects) leaves the store as  *)
(* it was.                                                                 *)
(***************************************************************************)
EXTENDS Integers, Sequences, FiniteSets, TLC

\* ------------------------------------------------------------------ bounds
\* Longest file content, in bytes.
MaxLen == 1
\* Largest amount of available memory, in bytes, given to the size guard
\* alone, and the largest numerator of its fraction.
MaxAvailable == 6
MaxNumerator == 2
\* Steps of the clock, of 60 seconds each.
MaxTicks == 1
\* Refresh requests the token endpoint receives.
MaxRefreshes == 2
\* Threads that call the token manager.
NumThreads == 2

\* ------------------------------------------------------------ the universe
Folders == {"F", "G"}
Names == {"a", "b"}
Byte == {0, 1}
Contents == UNION {[1..n -> Byte] : n \in 0..MaxLen}
Paths == Folders \X Names

\* Values of the optional argument new_file_name: None, the empty string, a name.
None == "<None>"
\* The new names of the moves that run together or while time passes.
ConcurrentNewNames == {None, "b"}
NewNames == {None, ""} \cup Names

\* The callers of the client.  Spec runs the calls of one caller, one after
\* the other.
Callers == {1, 2}
SeqCallers == {1}

\* psutil.virtual_memory().available, as the size guard may read it: values
\* that give every ceiling from 0 to MaxLen under the default fraction.
AvailableBytes == {5 * n : n \in 0..MaxLen}

\* ------------------------------------------------------- the remote store
NoItem == [id |-> 0, content |-> <<>>]
Exists(s, path) == s[path].id # 0
FolderId(folder) == <<"folder", folder>>
FolderOf(parent_id) == parent_id[2]
\* list_items: the names of the items of a folder.
list_items(s, folder) == {n \in Names : Exists(s, <<folder, n>>)}
\* The path that holds the item with this id (a set: empty when there is none).
ItemPaths(s, id) == {q \in Paths : s[q].id = id /\ id # 0}

\* Statuses with which the remote side may answer in place of the true one.
FaultStatuses == {401, 503}
Responses(true_status) == {true_status} \cup FaultStatuses
\* requests.Response.raise_for_status raises for 4xx and 5xx.
raise_for_status(status) == status >= 400 /\ status < 600

\* GET <path>: 200 when an item is there.
GetStatus(s, path) == IF Exists(s, path) THEN 200 ELSE 404
\* GET <download url of item id>.
DownloadStatus(s, id) == IF ItemPaths(s, id) # {} THEN 200 ELSE 404
DownloadContent(s, id) == s[CHOOSE q \in ItemPaths(s, id) : TRUE].content

\* PATCH /items/{item_id} with {parentReference: {id}, name}: the backend's
\* move.  404 when the item is gone, 400 when the payload names no folder of
\* the drive, 409 when another item holds the target name (the default
\* conflict behaviour of a move), else the item leaves its path and appears
\* at the target path, id and content kept.
PatchTarget(payload) == <<FolderOf(payload.parentReference), payload.name>>
PatchStatus(s, item_id, payload) ==
    IF ItemPaths(s, item_id) = {} THEN 404
    ELSE IF PatchTarget(payload) \notin Paths THEN 400
    ELSE IF Exists(s, PatchTarget(payload)) /\ s[PatchTarget(payload)].id # item_id
         THEN 409
         ELSE 200
PatchStore(s, item_id, payload) ==
    LET from == CHOOSE q \in ItemPaths(s, item_id) : TRUE
    IN  [q \in Paths |->
            IF q = PatchTarget(payload) THEN s[from]
            ELSE IF q = from THEN NoItem
            ELSE s[q]]
PatchJson(item_id, payload) ==
    [id |-> item_id, name |-> payload.name, parent |-> payload.parentReference]

\* PUT <path>:/content: replaces the content of the item at the path, or
\* creates a new item there.
PutStore(s, path, data, fresh) ==
    [s EXCEPT ![path] =
        [id |-> IF Exists(s, path) THEN s[path].id ELSE fresh, content |-> data]]

\* ----------------------------------------------------------------- errors
\* An exception: its type, the step that raised it, the status behind it,
\* and __context__ (the exception being handled when it was raised).
HTTPError(step, status) ==
    [type |-> "HTTPError", step |-> step, status |-> status, context |-> <<>>]
\* The error of get_headers when the token endpoint refuses the refresh,
\* met at the given step.
RefreshError(step) ==
    [type |-> "HTTPError", step |-> step, status |-> 0, context |-> <<>>]
MemoryError ==
    [type |-> "MemoryError", step |-> "size_check", status |-> 0, context |-> <<>>]
ConflictError ==
    [type |-> "Exception", step |-> "dest_check", status |-> 200, context |-> <<>>]
WithContext(err, handled) == [err EXCEPT !.context = <<handled>>]

\* ------------------------------------------------- uploads and reads
\* Folder and names of the uploaded files: a JSON name, a CSV name and a
\* name with another extension.
UploadFolder == "F"
UploadNames == {"t.json", "t.csv", "t.dat"}
\* file_name.endswith(".xlsx") and file_name.endswith(".csv")
EndsWithXlsx(name) == FALSE
EndsWithCsv(name) == name = "t.csv"
\* Python values: a string or an integer, written here by its text.
StrOf(text) == [type |-> "str", text |-> text]
IntOf(text) == [type |-> "int", text |-> text]
NaN == [type |-> "float", text |-> "nan"]
\* The dictionaries given to upload_json: one key, a string or an integer,
\* and one value.
JsonValues == [key : {StrOf("k"), StrOf("1"), IntOf("1")}, val : {StrOf("x"), IntOf("1")}]
\* The frames given to upload_csv: one column named c with one cell.
CsvValues == [column : {"c"}, cell : {StrOf("x"), StrOf("1"), StrOf(""), IntOf("1")}]
\* json.dumps(data, indent=4).encode("utf-8"): a key is written as a JSON
\* string whatever its type, a value as a string or as a number.
json_dumps(data) ==
    [kind |-> "json",
     key |-> [quoted |-> TRUE, text |-> data.key.text],
     val |-> [quoted |-> data.val.type = "str", text |-> data.val.text]]
\* json.loads: a quoted token is a string, a bare one a number.
FromJsonToken(token) == IF token.quoted THEN StrOf(token.text) ELSE IntOf(token.text)
json_loads(content) == [key |-> FromJsonToken(content.key), val |-> FromJsonToken(content.val)]
\* df.to_csv(buffer, index=False): the header and the cells as bare text.
to_csv(df) == [kind |-> "csv", column |-> df.column, cell |-> df.cell.text]
\* pd.read_csv: an empty cell is NaN, digits are an integer, the rest text.
FromCsvCell(text) ==
    IF text = "" THEN NaN
    ELSE IF text \in {"1"} THEN IntOf(text)
    ELSE StrOf(text)
read_csv(content) == [column |-> content.column, cell |-> FromCsvCell(content.cell)]

UploadPaths == {UploadFolder} \X UploadNames
\* drive: the content at each path (<<>> when there is none); written: the
\* value of the last upload that succeeded there, and whether it replaced a
\* file; last: the last read, its path and what the caller received.
NoUploads ==
    [drive |-> [q \in UploadPaths |-> <<>>],
     written |-> [q \in UploadPaths |-> <<>>],
     last |-> <<>>]
\* A PUT that leaves an existing file as it is.
PutKeepsExisting(old, content) == IF old = <<>> THEN <<content>> ELSE old
\* PUT .../content creates the file or replaces its content.
PutContent(old, content) == <<content>>

\* ------------------------------------------------------------------ state
VARIABLES
    store,      \* the remote store: path -> item
    next_id,    \* the id the store gives to the next item it creates
    mv,         \* per caller: the frame of its move_file call
    recording,  \* whether completed calls are remembered in prev
    prev,       \* <<>> or the last completed call, when it returned a result
    tm,         \* the TokenManager instance: token and expiry
    now,        \* time.time()
    tm_lock,    \* the holder of TokenManager._lock, 0 when free
    th,         \* per thread: the frame of its get_token call
    issued,     \* the answers of the token endpoint so far, in order
    sg,         \* the last two calls of get_dynamic_max_safe_size
    io,         \* the files written by the uploads, and the last read
    sm          \* SingletonMeta: _instances, _lock and the calls of TokenManager()

auth == <<tm, now, tm_lock, th, issued>>
vars == <<store, next_id, mv, recording, prev, tm, now, tm_lock, th, issued, sg, io, sm>>

\* --------------------------------------------------------- SingletonMeta
\* A thread's call of TokenManager(): instance is the local variable of
\* __call__, result what the call returned (0 for none).
IdleCall == [pc |-> "idle", instance |-> 0, result |-> 0]
\* _instances is empty, _lock is free, __init__ has not run.
NotConstructed ==
    [instances |-> 0, lock |-> 0, inits |-> 0,
     fr |-> [t \in 1..NumThreads |-> IdleCall]]
\* After "token_manager = TokenManager()" at import: the one instance is in
\* _instances and __init__ has run once.
Constructed == [NotConstructed EXCEPT !.instances = 1, !.inits = 1]
\* A __call__ that does not take the class lock.
ClassLockFreeAlways(holder) == TRUE
\* with cls._lock:
ClassLockFree(holder) == holder = 0

Threads == 1..NumThreads
\* self.token = None
NoToken == 0
\* Refresh 1 min before expiry; the lifetime taken when the answer has none.
RefreshMargin == 60
DefaultExpiresIn == 3600
\* expires_in of an answer of the token endpoint; 0 stands for an answer
\* without the field.
ExpiresInAnswers == {0, 60, 120}
\* A check that lets a token through at the second of its expiry.
NeedsRefreshLate(token, expiry, time) == token = NoToken \/ time > expiry
\* not self.token or time.time() >= self.expiry
NeedsRefresh(token, expiry, time) == token = NoToken \/ time >= expiry
\* int(token_data.get("expires_in", 3600))
Lifetime(expires_in) == IF expires_in = 0 THEN DefaultExpiresIn ELSE expires_in
\* refresh_token, once the endpoint has answered: the nth answer carries
\* the token n.
RefreshedManager(n, expires_in, time) ==
    [token |-> n, expiry |-> time + Lifetime(expires_in) - RefreshMargin]
\* The answer of the endpoint as the model remembers it; ok is FALSE for an
\* answer that raise_for_status rejects, or none at all.
Answer(ok, manager, expires_in) ==
    [ok |-> ok, token |-> manager.token, expiry |-> manager.expiry,
     lifetime |-> Lifetime(expires_in), at |-> now]

\* get_headers as one step, for a caller that finds the lock free: the
\* outcomes of get_token.  Each is the manager after the call, the token
\* returned (ok) or the error of the refresh request (not ok), and the
\* answers of the endpoint after the call.
GetHeaders ==
    IF ~NeedsRefresh(tm.token, tm.expiry, now)
    THEN {[ok |-> TRUE, token |-> tm.token, tm |-> tm, issued |-> issued]}
    ELSE {[ok |-> TRUE, token |-> Len(issued) + 1,
           tm |-> RefreshedManager(Len(issued) + 1, x, now),
           issued |-> Append(issued,
                        Answer(TRUE, RefreshedManager(Len(issued) + 1, x, now), x))] :
                x \in ExpiresInAnswers}
         \cup {[ok |-> FALSE, token |-> NoToken, tm |-> tm,
                 issued |-> Append(issued, Answer(FALSE, tm, 0))]}
\* A caller of get_headers goes on when the lock is free and the endpoint
\* has an answer left to give.
MayGetHeaders ==
    /\ tm_lock = 0
    /\ NeedsRefresh(tm.token, tm.expiry, now) => Len(issued) < MaxRefreshes
\* The token a frame holds before get_headers has given it one.
NoHeaders == -1

\* A thread's call of get_token.  seen is what the check under the lock read;
\* called_at, answers_at_call and stale_at_call describe the moment of the
\* call.
IdleThread ==
    [pc |-> "idle", result |-> NoToken, refreshed |-> FALSE,
     seen |-> [token |-> NoToken, expiry |-> 0, time |-> 0],
     called_at |-> 0, answers_at_call |-> 0, stale_at_call |-> FALSE]
\* A get_token that does not take the lock.
LockFreeAlways(holder) == TRUE
\* with self._lock:
LockFree(holder) == holder = 0

\* A thread calls get_token and waits for the lock.
get_token(t) ==
    /\ th[t].pc = "idle"
    /\ th' = [th EXCEPT ![t] =
                [IdleThread EXCEPT
                    !.pc = "waiting",
                    !.called_at = now,
                    !.answers_at_call = Len(issued),
                    !.stale_at_call = NeedsRefresh(tm.token, tm.expiry, now)]]
    /\ UNCHANGED <<tm, now, tm_lock, issued>>

\* The thread takes the lock and checks the token: it either returns the
\* cached token and releases the lock, or sends the refresh request.
AcquireAndCheck(t) ==
    /\ th[t].pc = "waiting"
    /\ LockFree(tm_lock)
    /\ LET seen == [token |-> tm.token, expiry |-> tm.expiry, time |-> now]
       IN  IF NeedsRefresh(tm.token, tm.expiry, now)
           THEN /\ Len(issued) < MaxRefreshes
                /\ th' = [th EXCEPT ![t] =
                            [@ EXCEPT !.pc = "refreshing", !.seen = seen,
                                      !.refreshed = TRUE]]
                /\ tm_lock' = t
           ELSE /\ th' = [th EXCEPT ![t] =
                            [@ EXCEPT !.pc = "done", !.seen = seen,
                                      !.result = tm.token]]
                /\ tm_lock' = tm_lock
    /\ UNCHANGED <<tm, now, issued>>

\* A refresh that drops the cached token when the request fails.
ForgottenAfterFailedRefresh(manager) == [token |-> NoToken, expiry |-> 0]
\* raise_for_status raises before self.token and self.expiry are assigned.
AfterFailedRefresh(manager) == manager
\* refresh_token gets its answer: the token and its expiry are stored and
\* the token returned, or raise_for_status raises; the lock is released.
RefreshAnswer(t) ==
    /\ th[t].pc = "refreshing"
    /\ \/ \E x \in ExpiresInAnswers :
            LET manager == RefreshedManager(Len(issued) + 1, x, now)
            IN  /\ tm' = manager
                /\ issued' = Append(issued, Answer(TRUE, manager, x))
                /\ th' = [th EXCEPT ![t] =
                            [@ EXCEPT !.pc = "done", !.result = manager.token]]
       \/ /\ tm' = AfterFailedRefresh(tm)
          /\ issued' = Append(issued, Answer(FALSE, tm, 0))
          /\ th' = [th EXCEPT ![t] = [@ EXCEPT !.pc = "raised"]]
    /\ tm_lock' = IF tm_lock = t THEN 0 ELSE tm_lock
    /\ now' = now

\* The caller has the token or the error.
ThreadReturn(t) ==
    /\ th[t].pc \in {"done", "raised"}
    /\ th' = [th EXCEPT ![t] = IdleThread]
    /\ UNCHANGED <<tm, now, tm_lock, issued>>

\* TokenManager() is called: SingletonMeta.__call__ waits for cls._lock.
TokenManagerCall(t) ==
    /\ sm.fr[t].pc = "idle"
    /\ sm' = [sm EXCEPT !.fr[t] = [IdleCall EXCEPT !.pc = "waiting"]]
    /\ UNCHANGED <<tm, tm_lock>>
\* with cls._lock:
ClassAcquire(t) ==
    /\ sm.fr[t].pc = "waiting"
    /\ ClassLockFree(sm.lock)
    /\ sm' = [sm EXCEPT !.lock = t, !.fr[t].pc = "check"]
    /\ UNCHANGED <<tm, tm_lock>>
\* if cls not in cls._instances:
ClassCheck(t) ==
    /\ sm.fr[t].pc = "check"
    /\ sm' = [sm EXCEPT !.fr[t].pc =
                    IF sm.instances = 0 THEN "construct" ELSE "release"]
    /\ UNCHANGED <<tm, tm_lock>>
\* instance = super().__call__(): __init__ runs and gives the new instance
\* no token, expiry 0 and a free lock.  tm and tm_lock hold the fields of
\* the instance constructed last.
Construct(t) ==
    /\ sm.fr[t].pc = "construct"
    /\ sm' = [sm EXCEPT !.inits = @ + 1,
                        !.fr[t].instance = sm.inits + 1,
                        !.fr[t].pc = "store"]
    /\ tm' = [token |-> NoToken, expiry |-> 0]
    /\ tm_lock' = 0
\* cls._instances[cls] = instance
StoreInstance(t) ==
    /\ sm.fr[t].pc = "store"
    /\ sm' = [sm EXCEPT !.instances = sm.fr[t].instance, !.fr[t].pc = "release"]
    /\ UNCHANGED <<tm, tm_lock>>
\* the end of the with block
ClassRelease(t) ==
    /\ sm.fr[t].pc = "release"
    /\ sm' = [sm EXCEPT !.lock = IF @ = t THEN 0 ELSE @, !.fr[t].pc = "unlocked"]
    /\ UNCHANGED <<tm, tm_lock>>
\* return cls._instances[cls]
ClassReturn(t) ==
    /\ sm.fr[t].pc = "unlocked"
    /\ sm' = [sm EXCEPT !.fr[t].pc = "returned", !.fr[t].result = sm.instances]
    /\ UNCHANGED <<tm, tm_lock>>

\* A minute passes.
Tick ==
    /\ now < 60 * MaxTicks
    /\ now' = now + 60
    /\ UNCHANGED <<tm, tm_lock, th, issued>>

\* ------------------------------------------------------------- size guard
\* A size guard that rounds to the nearest integer.
RoundedProduct(available, num, den) == (2 * available * num + den) \div (2 * den)
\* get_dynamic_max_safe_size: int(available * fraction), the fraction given
\* as num/den; the default fraction 0.2 is 2/10.
get_dynamic_max_safe_size(available, num, den) == (available * num) \div den
DefaultMaxSafeSize(available) == get_dynamic_max_safe_size(available, 2, 10)
\* The fractions the guard is called with: num/den, from 0 to MaxNumerator,
\* the default 2/10 and 1 among them.
Fractions == [num : 0..MaxNumerator, den : {1, 2, 10}]
\* One call of get_dynamic_max_safe_size: its inputs and what it returned.
SizeCall(available, fr) ==
    [available |-> available, num |-> fr.num, den |-> fr.den,
     size |-> get_dynamic_max_safe_size(available, fr.num, fr.den)]


\* ------------------------------------------------- move_file, local steps
\* file_bytes = None (no content downloaded): a value no content equals.
NoneBytes == <<-1>>

IdleFrame ==
    [pc |-> "idle",
     source_folder |-> "", file_name |-> "", dest_folder |-> "",
     new_file_name |-> None, dest_file_name |-> "",
     item_id |-> 0, file_bytes |-> NoneBytes, max_safe_size |-> 0, available |-> 0,
     parent_id |-> FolderId(""),
     e |-> <<>>,          \* the exception the except block handles
     raised |-> <<>>,     \* the exception the caller receives
     result |-> <<>>,     \* the value the caller receives
     calls |-> <<>>,      \* the remote calls issued, in order
     headers |-> NoHeaders, \* the token in the headers of line 256
     pre |-> <<>>]        \* the store when the call began

\* dest_file_name = new_file_name or file_name
DestFileName(new_file_name, file_name) ==
    IF new_file_name # None /\ new_file_name # "" THEN new_file_name ELSE file_name
src_path(f) == <<f.source_folder, f.file_name>>
dest_path(f) == <<f.dest_folder, f.dest_file_name>>

\* A size check that lets every length through.
TooLargeNever(length, max_safe_size) == FALSE
\* len(file_bytes) > max_safe_size
TooLarge(length, max_safe_size) == length > max_safe_size
\* dest_check.status_code == 200
DestConflict(status) == status = 200
\* A step 4 that asks for the id of the source folder.
DestFolderLookupSource(f) == f.source_folder
\* the folder whose id step 4 asks for
DestFolderLookup(f) == f.dest_folder
\* payload of the PATCH
PatchPayload(f) == [parentReference |-> f.parent_id, name |-> f.dest_file_name]
\* A handler that does not look at file_bytes before it recovers.
TruthyAlways(file_bytes) == TRUE
\* if file_bytes: (None and b"" are both false)
Truthy(file_bytes) == file_bytes # NoneBytes /\ Len(file_bytes) > 0
\* A recovery that uploads to the destination path.
RecoveryPathDest(f) == dest_path(f)
\* recovery_url and the data of the recovery PUT
RecoveryPath(f) == src_path(f)
RecoveryData(f) == f.file_bytes
\* A handler that raises the first exception again when the recovery fails.
RaiseOriginal(e, recover_err) == e
\* the bare raise inside "except Exception as recover_err": recover_err,
\* whose __context__ is the exception e that was being handled.
RaiseRecoverErr(e, recover_err) == WithContext(recover_err, e)
\* A handler that returns once the recovery has succeeded (no final raise).
AfterRecoveryReturns(f) == [f EXCEPT !.pc = "returned"]
\* A handler that tries the PATCH again once the recovery has succeeded.
AfterRecoveryRetries(f) == [f EXCEPT !.pc = "step5"]
\* where the call goes once the recovery upload has succeeded: the bare
\* raise that ends the except block.
AfterRecovery(f) == [f EXCEPT !.pc = "raised", !.raised = f.e]

HttpMethod(op) ==
    CASE op = "patch" -> "PATCH"
      [] op = "recovery" -> "PUT"
      [] OTHER -> "GET"
Mutating(call) == call.method \in {"PATCH", "PUT", "POST", "DELETE"}
\* Recovery headers left as get_headers returns them.
ContentTypeAsReturned(op) == IF op = "download" THEN None ELSE "application/json"
\* Content-Type of a call: get_headers gives application/json, the recovery
\* headers are set to application/octet-stream, the download has no headers.
ContentType(op) ==
    CASE op \in {"get_document", "dest_check", "dest_folder", "patch"} ->
            "application/json"
      [] op = "recovery" -> "application/octet-stream"
      [] OTHER -> None
\* One remote call added to the frame's record of calls.  dest_present notes
\* whether an item was at the destination path when the call was sent;
\* token is the bearer token sent (NoToken when the call has no headers),
\* fresh whether get_headers was called for this very request, and at the
\* time the call was sent.
Logged(f, op, status, target, token, fresh, data) ==
    [f EXCEPT !.calls = Append(@,
        [op |-> op, method |-> HttpMethod(op), status |-> status, target |-> target,
         dest_present |-> Exists(store, dest_path(f)),
         token |-> token, fresh |-> fresh,
         at |-> now,
         content_type |-> ContentType(op), data |-> data])]

\* "except Exception as e:" up to its next remote call: recovery is attempted
\* only if file_bytes is true; otherwise the exception is raised again.
ExceptHandler(f, e) ==
    IF Truthy(f.file_bytes)
    THEN [f EXCEPT !.pc = "step6", !.e = <<e>>]
    ELSE [f EXCEPT !.pc = "raised", !.e = <<e>>, !.raised = <<e>>]

\* ---------------------------------------------------------------- actions
\* The stores a call may start from: at most two items, with ids 1 and 2,
\* anywhere and with any content.
InitStores ==
    {s \in [Paths -> {NoItem} \cup [id : {1, 2}, content : Contents]] :
        /\ \A q, r \in Paths : (q # r /\ s[q].id # 0) => s[q].id # s[r].id
        /\ (\E q \in Paths : s[q].id = 2) => (\E q \in Paths : s[q].id = 1)}

\* The token manager of a process that has made a call before: it holds the
\* first token of the endpoint, granted for the default lifetime.
InitAuthorized ==
    /\ tm = RefreshedManager(1, 0, 0)
    /\ now = 0
    /\ tm_lock = 0
    /\ th = [t \in Threads |-> IdleThread]
    /\ issued = <<Answer(TRUE, RefreshedManager(1, 0, 0), 0)>>

Init ==
    /\ store \in InitStores
    /\ next_id = 3
    /\ mv = [p \in Callers |-> IdleFrame]
    /\ recording = FALSE
    /\ prev = <<>>
    /\ sg = <<>>
    /\ sm = Constructed
    /\ io = NoUploads
    /\ InitAuthorized

\* The same program with the last returned call remembered, started from the
\* stores whose second item, if any, is an empty file.
InitRoundTrip ==
    /\ store \in {s \in InitStores :
                    \A q \in Paths : s[q].id = 2 => s[q].content = <<>>}
    /\ next_id = 3
    /\ mv = [p \in Callers |-> IdleFrame]
    /\ recording = TRUE
    /\ prev = <<>>
    /\ sg = <<>>
    /\ sm = Constructed
    /\ io = NoUploads
    /\ InitAuthorized

\* The call of move_file up to its first remote call: the names and paths.
move_file(p, source_folder, file_name, dest_folder, new_file_name) ==
    /\ mv[p].pc = "idle"
    /\ MayGetHeaders
    /\ \E h \in GetHeaders :
        /\ tm' = h.tm
        /\ issued' = h.issued
        /\ mv' = [mv EXCEPT ![p] =
                [IdleFrame EXCEPT
                    !.pc = IF h.ok THEN "step1" ELSE "raised",
                    !.raised = IF h.ok THEN <<>> ELSE <<RefreshError("move_file")>>,
                    !.headers = IF h.ok THEN h.token ELSE NoHeaders,
                    !.source_folder = source_folder, !.file_name = file_name,
                    !.dest_folder = dest_folder, !.new_file_name = new_file_name,
                    !.dest_file_name = DestFileName(new_file_name, file_name),
                    !.pre = store]]
    /\ UNCHANGED <<store, next_id, recording, sg, sm, io, prev, now, tm_lock, th>>

\* Step 1: get_document(source_folder, file_name), with headers of its own,
\* then meta["id"].
Step1GetDocument(p) ==
    /\ mv[p].pc = "step1"
    /\ MayGetHeaders
    /\ \E h \in GetHeaders :
        /\ tm' = h.tm
        /\ issued' = h.issued
        /\ IF ~h.ok
           THEN mv' = [mv EXCEPT ![p] = ExceptHandler(@, RefreshError("get_document"))]
           ELSE \E status \in Responses(GetStatus(store, src_path(mv[p]))) :
                LET f == Logged(mv[p], "get_document", status,
                                <<"path", src_path(mv[p])>>, h.token, TRUE, <<>>)
                IN  mv' = [mv EXCEPT ![p] =
                        IF raise_for_status(status)
                        THEN ExceptHandler(f, HTTPError("get_document", status))
                        ELSE [f EXCEPT !.pc = "step2",
                                       !.item_id = store[src_path(f)].id]]
    /\ UNCHANGED <<store, next_id, recording, sg, sm, io, prev, now, tm_lock, th>>

\* Step 2: download the content into memory, then the size check.
Step2Download(p) ==
    /\ mv[p].pc = "step2"
    /\ \E status \in Responses(DownloadStatus(store, mv[p].item_id)),
          available \in AvailableBytes :
        LET f == Logged(mv[p], "download", status, <<"download", mv[p].item_id>>,
                        NoToken, FALSE, <<>>)
            g == [f EXCEPT !.file_bytes = DownloadContent(store, f.item_id),
                           !.max_safe_size = DefaultMaxSafeSize(available),
                           !.available = available]
        IN  mv' = [mv EXCEPT ![p] =
                IF raise_for_status(status)
                THEN ExceptHandler(f, HTTPError("download", status))
                ELSE IF TooLarge(Len(g.file_bytes), g.max_safe_size)
                     THEN ExceptHandler(g, MemoryError)
                     ELSE [g EXCEPT !.pc = "step3"]]
    /\ UNCHANGED <<store, next_id, recording, sg, sm, io, prev>>
    /\ UNCHANGED auth

\* Step 3: probe the destination path; only a 200 counts as a conflict.
Step3DestCheck(p) ==
    /\ mv[p].pc = "step3"
    /\ \E status \in Responses(GetStatus(store, dest_path(mv[p]))) :
        LET f == Logged(mv[p], "dest_check", status, <<"path", dest_path(mv[p])>>,
                        mv[p].headers, FALSE, <<>>)
        IN  mv' = [mv EXCEPT ![p] =
                IF DestConflict(status)
                THEN ExceptHandler(f, ConflictError)
                ELSE [f EXCEPT !.pc = "step4"]]
    /\ UNCHANGED <<store, next_id, recording, sg, sm, io, prev>>
    /\ UNCHANGED auth

\* Step 4: the destination folder's id.
Step4DestFolder(p) ==
    /\ mv[p].pc = "step4"
    /\ \E status \in Responses(200) :
        LET f == Logged(mv[p], "dest_folder", status,
                        <<"folder", DestFolderLookup(mv[p])>>,
                        mv[p].headers, FALSE, <<>>)
        IN  mv' = [mv EXCEPT ![p] =
                IF raise_for_status(status)
                THEN ExceptHandler(f, HTTPError("dest_folder", status))
                ELSE [f EXCEPT !.pc = "step5", !.parent_id = FolderId(DestFolderLookup(f))]]
    /\ UNCHANGED <<store, next_id, recording, sg, sm, io, prev>>
    /\ UNCHANGED auth

\* Step 5: the PATCH that moves and renames; its result is returned.
Step5Patch(p) ==
    /\ mv[p].pc = "step5"
    /\ LET payload == PatchPayload(mv[p])
       IN  \E status \in Responses(PatchStatus(store, mv[p].item_id, payload)) :
            LET f == Logged(mv[p], "patch", status, <<"item", mv[p].item_id>>,
                            mv[p].headers, FALSE, <<payload>>)
            IN  IF raise_for_status(status)
                THEN /\ mv' = [mv EXCEPT ![p] =
                                ExceptHandler(f, HTTPError("patch", status))]
                     /\ store' = store
                ELSE /\ mv' = [mv EXCEPT ![p] =
                                [f EXCEPT !.pc = "returned",
                                          !.result = <<PatchJson(f.item_id, payload)>>]]
                     /\ store' = PatchStore(store, f.item_id, payload)
    /\ UNCHANGED <<next_id, recording, sg, sm, io, prev>>
    /\ UNCHANGED auth

\* Step 6: the recovery upload, with headers of its own, and the raise that
\* follows it.
Step6Recovery(p) ==
    /\ mv[p].pc = "step6"
    /\ MayGetHeaders
    /\ \E h \in GetHeaders :
        /\ tm' = h.tm
        /\ issued' = h.issued
        /\ IF ~h.ok
           THEN /\ mv' = [mv EXCEPT ![p] =
                            [mv[p] EXCEPT !.pc = "raised",
                                !.raised = <<RaiseRecoverErr(mv[p].e[1],
                                                RefreshError("recovery"))>>]]
                /\ UNCHANGED <<store, next_id>>
           ELSE \E status \in Responses(200) :
                LET path == RecoveryPath(mv[p])
                    f == Logged(mv[p], "recovery", status, <<"path", path>>,
                                h.token, TRUE, <<RecoveryData(mv[p])>>)
                IN  IF raise_for_status(status)
                    THEN /\ mv' = [mv EXCEPT ![p] =
                                    [f EXCEPT !.pc = "raised",
                                        !.raised = <<RaiseRecoverErr(f.e[1],
                                                        HTTPError("recovery", status))>>]]
                         /\ UNCHANGED <<store, next_id>>
                    ELSE /\ mv' = [mv EXCEPT ![p] = AfterRecovery(f)]
                         /\ store' = PutStore(store, path, RecoveryData(f), next_id)
                         /\ next_id' = IF Exists(store, path) THEN next_id
                                       ELSE next_id + 1
    /\ UNCHANGED <<recording, sg, sm, io, prev, now, tm_lock, th>>

\* The caller has the outcome of its call and may call again.
Complete(p) ==
    /\ mv[p].pc \in {"returned", "raised"}
    /\ prev' = IF recording /\ mv[p].pc = "returned"
               THEN <<[source_folder |-> mv[p].source_folder,
                       file_name |-> mv[p].file_name,
                       dest_folder |-> mv[p].dest_folder,
                       dest_file_name |-> mv[p].dest_file_name,
                       pre |-> mv[p].pre]>>
               ELSE <<>>
    /\ mv' = [mv EXCEPT ![p] = IdleFrame]
    /\ UNCHANGED <<store, next_id, recording, sg, sm, io>>
    /\ UNCHANGED auth

Next ==
    \E p \in SeqCallers :
        \/ \E sf \in Folders, fn \in Names, df \in Folders, nn \in NewNames :
                move_file(p, sf, fn, df, nn)
        \/ Step1GetDocument(p)
        \/ Step2Download(p)
        \/ Step3DestCheck(p)
        \/ Step4DestFolder(p)
        \/ Step5Patch(p)
        \/ Step6Recovery(p)
        \/ Complete(p)

Spec == Init /\ [][Next]_vars

\* The token manager alone, from its construction, called by several
\* threads while time passes.
InitToken ==
    /\ store = [q \in Paths |-> NoItem]
    /\ next_id = 1
    /\ mv = [p \in Callers |-> IdleFrame]
    /\ recording = FALSE
    /\ prev = <<>>
    /\ sg = <<>>
    /\ sm = Constructed
    /\ io = NoUploads
    /\ tm = [token |-> NoToken, expiry |-> 0]
    /\ now = 0
    /\ tm_lock = 0
    /\ th = [t \in Threads |-> IdleThread]
    /\ issued = <<>>
NextToken ==
    \/ \E t \in Threads :
            /\ \/ get_token(t)
               \/ AcquireAndCheck(t)
               \/ RefreshAnswer(t)
               \/ ThreadReturn(t)
            /\ UNCHANGED <<store, next_id, mv, recording, sg, sm, io, prev>>
    \/ Tick /\ UNCHANGED <<store, next_id, mv, recording, sg, sm, io, prev>>
SpecToken == InitToken /\ [][NextToken]_vars

\* Threads that each call TokenManager() before anything has constructed
\* it, and then get_token on the instance they were given.
InitSingleton ==
    /\ store = [q \in Paths |-> NoItem]
    /\ next_id = 1
    /\ mv = [p \in Callers |-> IdleFrame]
    /\ recording = FALSE
    /\ prev = <<>>
    /\ sg = <<>>
    /\ io = NoUploads
    /\ sm = NotConstructed
    /\ tm = [token |-> NoToken, expiry |-> 0]
    /\ now = 0
    /\ tm_lock = 0
    /\ th = [t \in Threads |-> IdleThread]
    /\ issued = <<>>
NextSingleton ==
    \E t \in Threads :
        \/ /\ \/ TokenManagerCall(t)
              \/ ClassAcquire(t)
              \/ ClassCheck(t)
              \/ Construct(t)
              \/ StoreInstance(t)
              \/ ClassRelease(t)
              \/ ClassReturn(t)
           /\ UNCHANGED <<store, next_id, mv, recording, prev, sg, io, now, th, issued>>
        \/ /\ sm.fr[t].pc = "returned"
           /\ \/ get_token(t)
              \/ AcquireAndCheck(t)
              \/ RefreshAnswer(t)
              \/ ThreadReturn(t)
           /\ UNCHANGED <<store, next_id, mv, recording, prev, sg, io, sm>>
SpecSingleton == InitSingleton /\ [][NextSingleton]_vars

\* One caller of move_file from the construction of the token manager,
\* while time passes.
InitAuth ==
    /\ store = [q \in Paths |->
                    IF q = <<"F", "a">> THEN [id |-> 1, content |-> <<0>>] ELSE NoItem]
    /\ next_id = 3
    /\ mv = [p \in Callers |-> IdleFrame]
    /\ recording = FALSE
    /\ prev = <<>>
    /\ sg = <<>>
    /\ sm = Constructed
    /\ io = NoUploads
    /\ tm = [token |-> NoToken, expiry |-> 0]
    /\ now = 0
    /\ tm_lock = 0
    /\ th = [t \in Threads |-> IdleThread]
    /\ issued = <<>>
NextAuth ==
    \/ \E p \in SeqCallers :
        \/ \E df \in Folders, nn \in ConcurrentNewNames : move_file(p, "F", "a", df, nn)
        \/ Step1GetDocument(p) \/ Step2Download(p) \/ Step3DestCheck(p)
        \/ Step4DestFolder(p) \/ Step5Patch(p) \/ Step6Recovery(p)
    \/ Tick /\ UNCHANGED <<store, next_id, mv, recording, sg, sm, io, prev>>
SpecAuth == InitAuth /\ [][NextAuth]_vars
SpecRoundTrip == InitRoundTrip /\ [][Next]_vars

\* upload_json and upload_csv: headers, one PUT, raise_for_status.
Upload(kind, value, content, folder, file_name) ==
    /\ MayGetHeaders
    /\ \E h \in GetHeaders :
        /\ tm' = h.tm
        /\ issued' = h.issued
        /\ \E status \in (IF h.ok THEN Responses(200) ELSE {0}) :
            io' = IF h.ok /\ ~raise_for_status(status)
                  THEN [drive |-> [io.drive EXCEPT ![<<folder, file_name>>] =
                                        PutContent(@, content)],
                        written |-> [io.written EXCEPT ![<<folder, file_name>>] =
                                        <<[kind |-> kind, value |-> value,
                                           replaced |-> io.drive[<<folder, file_name>>] # <<>>
                                                /\ io.drive[<<folder, file_name>>] # <<content>>]>>],
                        last |-> <<>>]
                  ELSE [io EXCEPT !.last = <<>>]
    /\ UNCHANGED <<store, next_id, mv, recording, prev, sg, sm, now, tm_lock, th>>
upload_json(data, folder, file_name) ==
    Upload("json", data, json_dumps(data), folder, file_name)
upload_csv(df, folder, file_name) ==
    Upload("csv", df, to_csv(df), folder, file_name)

\* What a reader parses: the bytes when they are of its format, and
\* otherwise an error of the parser.
ParseError == [type |-> "ParseError"]
ValueError == [type |-> "ValueError"]
ParseJson(content) ==
    IF content.kind = "json" THEN [ok |-> TRUE, value |-> json_loads(content)]
    ELSE [ok |-> FALSE, value |-> ParseError]
ParseSpreadsheet(file_name, content) ==
    IF EndsWithXlsx(file_name) THEN [ok |-> FALSE, value |-> ParseError]
    ELSE IF EndsWithCsv(file_name)
         THEN IF content.kind = "csv" THEN [ok |-> TRUE, value |-> read_csv(content)]
              ELSE [ok |-> FALSE, value |-> ParseError]
         ELSE [ok |-> FALSE, value |-> ValueError]
\* read_json and read_spreadsheet: get_document, the download, the parser.
Read(kind, folder, file_name) ==
    /\ MayGetHeaders
    /\ \E h \in GetHeaders :
        /\ tm' = h.tm
        /\ issued' = h.issued
        /\ LET q == <<folder, file_name>>
               present == io.drive[q] # <<>>
           IN  \E meta \in (IF h.ok THEN Responses(IF present THEN 200 ELSE 404) ELSE {0}),
                  download \in Responses(200) :
                LET served == h.ok /\ ~raise_for_status(meta) /\ ~raise_for_status(download)
                    parsed == IF kind = "json" THEN ParseJson(io.drive[q][1])
                              ELSE ParseSpreadsheet(file_name, io.drive[q][1])
                IN  io' = [io EXCEPT !.last =
                            <<[kind |-> kind, path |-> q, served |-> served,
                               ok |-> served /\ parsed.ok,
                               result |-> IF served THEN <<parsed.value>> ELSE <<>>]>>]
    /\ UNCHANGED <<store, next_id, mv, recording, prev, sg, sm, now, tm_lock, th>>
read_json(folder_path, file_name) == Read("json", folder_path, file_name)
read_spreadsheet(folder_path, file_name) == Read("csv", folder_path, file_name)

\* Uploads and reads of one caller, from an empty folder.
InitUpload ==
    /\ store = [q \in Paths |-> NoItem]
    /\ next_id = 1
    /\ mv = [p \in Callers |-> IdleFrame]
    /\ recording = FALSE
    /\ prev = <<>>
    /\ sg = <<>>
    /\ sm = Constructed
    /\ io = NoUploads
    /\ InitAuthorized
NextUpload ==
    \E n \in UploadNames :
        \/ \E data \in JsonValues : upload_json(data, UploadFolder, n)
        \/ \E df \in CsvValues : upload_csv(df, UploadFolder, n)
        \/ read_json(UploadFolder, n)
        \/ read_spreadsheet(UploadFolder, n)
SpecUpload == InitUpload /\ [][NextUpload]_vars

\* The size guard called with any memory reading and fraction, twice in a
\* row, and the moves of one file that the guard lets through or refuses.
\* The two share no state; a behaviour does the one or the other.
get_dynamic_max_safe_size_call ==
    /\ \E available \in 0..MaxAvailable, fr \in Fractions :
            sg' = <<SizeCall(available, fr)>> \o SubSeq(sg, 1, IF sg = <<>> THEN 0 ELSE 1)
    /\ UNCHANGED <<store, next_id, mv, recording, prev, io, sm>>
    /\ UNCHANGED auth
InitSizeGuard ==
    /\ \E c \in Contents :
        store = [q \in Paths |->
                    IF q = <<"F", "a">> THEN [id |-> 1, content |-> c] ELSE NoItem]
    /\ next_id = 3
    /\ mv = [p \in Callers |-> IdleFrame]
    /\ recording = FALSE
    /\ prev = <<>>
    /\ sg = <<>>
    /\ sm = Constructed
    /\ io = NoUploads
    /\ InitAuthorized
NextSizeGuard ==
    \/ /\ \A p \in Callers : mv[p].pc = "idle"
       /\ get_dynamic_max_safe_size_call
    \/ /\ sg = <<>>
       /\ \E p \in SeqCallers :
            \/ \E df \in Folders, nn \in ConcurrentNewNames :
                    move_file(p, "F", "a", df, nn)
            \/ Step1GetDocument(p) \/ Step2Download(p) \/ Step3DestCheck(p)
            \/ Step4DestFolder(p) \/ Step5Patch(p) \/ Step6Recovery(p)
            \/ Complete(p)
SpecSizeGuard == InitSizeGuard /\ [][NextSizeGuard]_vars

\* ------------------------------------------------- reading a call's frame
Done(f) == f.pc \in {"returned", "raised"}
CallsOf(f, op) == {i \in 1..Len(f.calls) : f.calls[i].op = op}
Sent(f, op) == CallsOf(f, op) # {}
CallFailed(f, op) == \E i \in CallsOf(f, op) : raise_for_status(f.calls[i].status)
CallOk(f, op) == \E i \in CallsOf(f, op) : ~raise_for_status(f.calls[i].status)
MutatingCalls(f) == {i \in 1..Len(f.calls) : Mutating(f.calls[i])}
\* The file to move was at the source path when the call began.
HadFile(f) == Exists(f.pre, src_path(f))
\* The file is at the destination path, as it was at the source, and no
\* longer at the source path.
AtDestOnly(f) ==
    /\ store[dest_path(f)] = f.pre[src_path(f)]
    /\ dest_path(f) # src_path(f) => ~Exists(store, src_path(f))
\* The file is at the source path as it was, and the destination path is as
\* it was before the call.
AtSourceOnly(f) ==
    /\ store[src_path(f)] = f.pre[src_path(f)]
    /\ dest_path(f) # src_path(f) => store[dest_path(f)] = f.pre[dest_path(f)]
\* The caller got the error of a failed recovery.
Fatal(f) == f.pc = "raised" /\ f.raised[1].step = "recovery"
\* The downloaded content was larger than the ceiling.
WasTooLarge(f) == f.file_bytes # NoneBytes /\ Len(f.file_bytes) > f.max_safe_size

\* ----------------------------------------------------------------- claims

\* C1: a move of a file that was at the source path ends with the file only
\* at the destination path (as it was at the source) when the call returns,
\* and only at the source path, with its bytes and name and the destination
\* path as before, when the call raises anything but the error of a failed
\* recovery.  A returned call or an ordinary failure never leaves the file
\* at both paths or at neither.
C1_EndState ==
    \A p \in Callers :
        (Done(mv[p]) /\ HadFile(mv[p])) =>
            /\ mv[p].pc = "returned" => AtDestOnly(mv[p])
            /\ (mv[p].pc = "raised" /\ ~Fatal(mv[p])) => AtSourceOnly(mv[p])
            /\ AtDestOnly(mv[p]) \/ AtSourceOnly(mv[p]) \/ Fatal(mv[p])
\* A move whose PATCH failed and whose recovery succeeded has ended with the
\* file, not empty, at the source path only.
C1_Witness ==
    \E p \in Callers :
        /\ mv[p].pc = "raised" /\ HadFile(mv[p])
        /\ CallFailed(mv[p], "patch") /\ CallOk(mv[p], "recovery")
        /\ dest_path(mv[p]) # src_path(mv[p])
        /\ AtSourceOnly(mv[p]) /\ ~AtDestOnly(mv[p])

\* C2: when the download succeeded, the PATCH failed and the recovery upload
\* succeeded, the source path holds the file it held before the call, byte
\* for byte, the caller receives the error of the PATCH, and no result.
C2_RelocationFailureRecovered ==
    \A p \in Callers :
        (/\ Done(mv[p])
         /\ CallOk(mv[p], "download")
         /\ CallFailed(mv[p], "patch")
         /\ CallOk(mv[p], "recovery")) =>
            /\ Exists(store, src_path(mv[p]))
            /\ store[src_path(mv[p])] = mv[p].pre[src_path(mv[p])]
            /\ mv[p].pc = "raised"
            /\ mv[p].result = <<>>
            /\ \E i \in CallsOf(mv[p], "patch") :
                    mv[p].raised = <<HTTPError("patch", mv[p].calls[i].status)>>
C2_Witness ==
    \E p \in Callers :
        /\ mv[p].pc = "raised"
        /\ CallOk(mv[p], "download")
        /\ CallFailed(mv[p], "patch")
        /\ CallOk(mv[p], "recovery")
        /\ mv[p].raised = <<HTTPError("patch", 503)>>
        /\ Len(store[src_path(mv[p])].content) = MaxLen

\* C3: when a step after the download failed and the recovery upload failed
\* too, the caller receives the recovery error, whose context is the first
\* error; an error received after a recovery that succeeded has no context,
\* so the two are told apart.
C3_RecoveryFailureEscalated ==
    \A p \in Callers :
        Done(mv[p]) =>
            /\ CallFailed(mv[p], "recovery") =>
                /\ mv[p].pc = "raised"
                /\ mv[p].raised[1].type = "HTTPError"
                /\ mv[p].raised[1].step = "recovery"
                /\ mv[p].e # <<>>
                /\ mv[p].raised[1].context = mv[p].e
                /\ mv[p].e[1].step \in {"size_check", "dest_check", "dest_folder", "patch"}
            /\ CallOk(mv[p], "recovery") =>
                /\ mv[p].pc = "raised"
                /\ mv[p].raised = mv[p].e
                /\ mv[p].raised[1].context = <<>>
                /\ mv[p].raised[1].step # "recovery"
C3_Witness ==
    \E p \in Callers :
        /\ mv[p].pc = "raised"
        /\ CallFailed(mv[p], "patch")
        /\ CallFailed(mv[p], "recovery")
        /\ mv[p].raised[1].context = <<HTTPError("patch", 503)>>

C5_ConflictAbortsBeforeMutation ==
    \A p \in Callers :
        (Done(mv[p]) /\ \E i \in CallsOf(mv[p], "dest_check") :
                            mv[p].calls[i].status = 200) =>
            /\ mv[p].raised = <<ConflictError>>
            /\ MutatingCalls(mv[p]) = {}

\* C6: when a move returns, the source folder's listing no longer has the
\* source name, the destination folder's listing has the destination name,
\* and the returned metadata carries the destination name: new_file_name
\* when one is given (not None and not empty), else the source file name.
C6_SuccessfulMovePostcondition ==
    \A p \in Callers :
        mv[p].pc = "returned" =>
            LET name == IF mv[p].new_file_name \in Names
                        THEN mv[p].new_file_name
                        ELSE mv[p].file_name
            IN  /\ mv[p].file_name \notin list_items(store, mv[p].source_folder)
                /\ name \in list_items(store, mv[p].dest_folder)
                /\ mv[p].result[1].name = name

\* C7: a move that returned, followed by the reverse move (from the first
\* move's destination path back to its source path) that returned, leaves
\* the store, so every listing and every file's bytes, as it was before the
\* first move.  move(F, a, F, b) then move(F, b, F, a) is the case of one
\* folder.
C7_RoundTrip ==
    \A p \in Callers :
        (/\ mv[p].pc = "returned"
         /\ prev # <<>>
         /\ <<prev[1].dest_folder, prev[1].dest_file_name>> = src_path(mv[p])
         /\ <<prev[1].source_folder, prev[1].file_name>> = dest_path(mv[p])
         /\ src_path(mv[p]) # dest_path(mv[p])) =>
            /\ store = prev[1].pre
            /\ \A F \in Folders : list_items(store, F) = list_items(prev[1].pre, F)
\* move(F, a, F, b) and move(F, b, F, a) have both returned, for a file that
\* is not empty, with another file in the store.
C7_Witness ==
    \E p \in Callers :
        /\ mv[p].pc = "returned"
        /\ prev # <<>>
        /\ prev[1].source_folder = "F" /\ prev[1].file_name = "a"
        /\ prev[1].dest_folder = "F" /\ prev[1].dest_file_name = "b"
        /\ src_path(mv[p]) = <<"F", "b">> /\ dest_path(mv[p]) = <<"F", "a">>
        /\ list_items(prev[1].pre, "F") = {"a"}
        /\ list_items(mv[p].pre, "F") = {"b"}
        /\ list_items(store, "F") = {"a"}
        /\ Len(store[<<"F", "a">>].content) = MaxLen
        /\ \E q \in Paths : store[q].id = 2

\* C8: when the metadata fetch or the download fails, the caller receives
\* that error as it was raised, no recovery upload is attempted and no
\* mutating call is sent; the store is as it was.
C8_EarlyFailurePropagates ==
    \A p \in Callers :
        (Done(mv[p]) /\ (CallFailed(mv[p], "get_document")
                            \/ CallFailed(mv[p], "download"))) =>
            LET last == mv[p].calls[Len(mv[p].calls)]
            IN  /\ mv[p].pc = "raised"
                /\ last.op \in {"get_document", "download"}
                /\ mv[p].raised = <<HTTPError(last.op, last.status)>>
                /\ ~Sent(mv[p], "recovery")
                /\ MutatingCalls(mv[p]) = {}
                /\ store = mv[p].pre
\* The download of a file that is there has failed and the call has raised.
C8_Witness ==
    \E p \in Callers :
        /\ mv[p].pc = "raised"
        /\ HadFile(mv[p])
        /\ Len(store[src_path(mv[p])].content) > 0
        /\ CallOk(mv[p], "get_document")
        /\ CallFailed(mv[p], "download")
        /\ mv[p].raised = <<HTTPError("download", 503)>>

\* C9: in every move no mutating call is sent before the PATCH; a move that
\* returned has sent one mutating call, the PATCH; a move that raised has
\* sent no mutating call but at most one PATCH and at most one recovery
\* upload.
C9_MutationOrder ==
    \A p \in Callers :
        /\ \A i, j \in 1..Len(mv[p].calls) :
                (i < j /\ mv[p].calls[j].op = "patch") => ~Mutating(mv[p].calls[i])
        /\ \A i \in MutatingCalls(mv[p]) : mv[p].calls[i].op \in {"patch", "recovery"}
        /\ Cardinality(CallsOf(mv[p], "patch")) <= 1
        /\ Cardinality(CallsOf(mv[p], "recovery")) <= 1
        /\ mv[p].pc = "returned" =>
                /\ MutatingCalls(mv[p]) = {Len(mv[p].calls)}
                /\ mv[p].calls[Len(mv[p].calls)].op = "patch"
        /\ (mv[p].pc = "raised" /\ ~Sent(mv[p], "patch")) =>
                MutatingCalls(mv[p]) = CallsOf(mv[p], "recovery")
\* A move has sent the PATCH, which failed, and then the recovery upload.
C9_Witness ==
    \E p \in Callers :
        /\ mv[p].pc = "raised"
        /\ Len(mv[p].calls) = 6
        /\ mv[p].calls[5].op = "patch"
        /\ mv[p].calls[6].op = "recovery"
        /\ MutatingCalls(mv[p]) = {5, 6}

\* C10: the PATCH is sent only when no item is at the destination path; a
\* move that finds an item there, whatever the probe answers, ends without
\* sending the PATCH.
C10_PatchOnlyWhenDestinationAbsent ==
    \A p \in Callers :
        \A i \in CallsOf(mv[p], "patch") : ~mv[p].calls[i].dest_present

\* ------------------------------------------------- two moves in flight
\* Two callers, each with one call of move_file, their remote calls
\* interleaved in every order.  The store starts with one file, at F/a; both
\* callers move that file, to the same or to different destinations.
InitConcurrent ==
    /\ \E c \in Contents :
        store = [q \in Paths |->
                    IF q = <<"F", "a">> THEN [id |-> 1, content |-> c] ELSE NoItem]
    /\ next_id = 3
    /\ mv = [p \in Callers |-> IdleFrame]
    /\ recording = FALSE
    /\ prev = <<>>
    /\ sg = <<>>
    /\ sm = Constructed
    /\ io = NoUploads
    /\ InitAuthorized

NextConcurrent ==
    \E p \in Callers :
        \/ \E df \in Folders, nn \in ConcurrentNewNames : move_file(p, "F", "a", df, nn)
        \/ Step1GetDocument(p)
        \/ Step2Download(p)
        \/ Step3DestCheck(p)
        \/ Step4DestFolder(p)
        \/ Step5Patch(p)
        \/ Step6Recovery(p)

SpecConcurrent == InitConcurrent /\ [][NextConcurrent]_vars

\* The paths that hold an item.
Occupied(s) == {q \in Paths : Exists(s, q)}

\* C11: when two moves of the same file, their remote calls interleaved,
\* have both ended and neither caller received the error of a failed
\* recovery, the file is at one path only: never at both a source and a
\* destination path, and never at neither.
C11_ConcurrentMovesEndState ==
    (\A p \in Callers : Done(mv[p]) /\ HadFile(mv[p]) /\ ~Fatal(mv[p])) =>
        Cardinality(Occupied(store)) = 1

\* ------------------------------------------------------ credentials in use
\* A call that carries a bearer token.
Authenticated(call) == call.token # NoToken
\* Two entries of the record are the same request.
SameRequest(c, d) == c.op = d.op /\ c.target = d.target /\ c.data = d.data
\* Entry i + 1 carries a token other than that of entry i, obtained from
\* get_headers for that request.
RefreshedBetween(f, i) ==
    f.calls[i + 1].fresh /\ f.calls[i + 1].token # f.calls[i].token

\* C12: an authenticated call of move_file that is answered 401 is followed
\* by one credential refresh and one retry of the same request (and a retry
\* is not retried again).
C12_Retry401Once ==
    \A p \in Callers :
        Done(mv[p]) =>
            \A i \in 1..Len(mv[p].calls) :
                LET c == mv[p].calls
                    first == i = 1 \/ ~(SameRequest(c[i - 1], c[i]) /\ c[i - 1].status = 401)
                IN  (Authenticated(c[i]) /\ c[i].status = 401) =>
                        IF first
                        THEN /\ i < Len(c)
                             /\ SameRequest(c[i], c[i + 1])
                             /\ RefreshedBetween(mv[p], i)
                        ELSE i = Len(c) \/ ~SameRequest(c[i], c[i + 1])

\* ------------------------------------------------- threads and the token
InFlight == {t \in Threads : th[t].pc = "refreshing"}
\* All threads called get_token at the same moment, found the token absent
\* or expired, and have their outcome.
CalledTogetherStale ==
    /\ \A t \in Threads : th[t].pc \in {"done", "raised"} /\ th[t].stale_at_call
    /\ \A t, u \in Threads :
            /\ th[t].called_at = th[u].called_at
            /\ th[t].answers_at_call = th[u].answers_at_call
\* The number of answers the endpoint had given when they called.
AnswersBefore == th[1].answers_at_call

\* C13 (as stated): at most one refresh request is in flight, and threads
\* that find the token absent or expired at the same moment cause exactly
\* one refresh request and all return the token it produced.
C13_OneRefreshForAll ==
    /\ Cardinality(InFlight) <= 1
    /\ CalledTogetherStale =>
            /\ Len(issued) = AnswersBefore + 1
            /\ \A t \in Threads :
                    th[t].pc = "done" /\ th[t].result = issued[AnswersBefore + 1].token

\* C13 (amended): at most one refresh request is in flight; of the threads
\* that find the token absent or expired at the same moment, each one that
\* finds it so under the lock sends a request of its own, and an error goes
\* to the thread whose request failed; when the first request succeeds and
\* every thread checks before the stored expiry of its token, exactly one
\* request is sent and all return that token.
C13_SerializedRefresh ==
    /\ Cardinality(InFlight) <= 1
    /\ CalledTogetherStale =>
            /\ Len(issued) = AnswersBefore + Cardinality({t \in Threads : th[t].refreshed})
            /\ Len(issued) > AnswersBefore
            /\ \A t \in Threads : th[t].pc = "raised" => th[t].refreshed
            /\ (/\ issued[AnswersBefore + 1].ok
                /\ \A t \in Threads :
                        th[t].seen.time < issued[AnswersBefore + 1].expiry) =>
                    /\ Len(issued) = AnswersBefore + 1
                    /\ \A t \in Threads :
                            /\ th[t].pc = "done"
                            /\ th[t].result = issued[AnswersBefore + 1].token
\* Two threads called at the same moment with no token cached; one sent the
\* refresh request, the other waited for the lock and returned the same
\* token without a request.
C13_Witness ==
    /\ CalledTogetherStale
    /\ Len(issued) = AnswersBefore + 1
    /\ \E t, u \in Threads :
            /\ th[t].refreshed /\ ~th[u].refreshed
            /\ th[u].seen.token = issued[AnswersBefore + 1].token
            /\ th[t].result = th[u].result
            /\ th[t].result # NoToken

\* The outcome of a get_token call is known.
Checked(f) == f.pc \in {"refreshing", "done", "raised"}

\* C14: get_token sends a refresh request exactly when, at its check, the
\* cached token is absent or the time is at or past the stored expiry, which
\* is the time of the answer plus the granted lifetime minus 60 seconds; a
\* call that refreshes returns the token just issued, any other call the
\* cached token, whose expiry had not passed at the check.
C14_RefreshIffAbsentOrExpired ==
    /\ \A t \in Threads :
        /\ Checked(th[t]) =>
                (th[t].refreshed <=>
                    (th[t].seen.token = NoToken \/ th[t].seen.time >= th[t].seen.expiry))
        /\ (th[t].pc = "done" /\ th[t].refreshed) =>
                /\ th[t].result \in 1..Len(issued)
                /\ issued[th[t].result].ok
                /\ th[t].result > th[t].seen.token
                /\ issued[th[t].result].at >= th[t].seen.time
        /\ (th[t].pc = "done" /\ ~th[t].refreshed) =>
                /\ th[t].result = th[t].seen.token
                /\ th[t].result # NoToken
                /\ th[t].seen.time < th[t].seen.expiry
    /\ \A n \in 1..Len(issued) :
            issued[n].ok =>
                /\ issued[n].token = n
                /\ issued[n].expiry = issued[n].at + issued[n].lifetime - 60
    /\ tm.token # NoToken =>
            /\ tm.token \in 1..Len(issued)
            /\ issued[tm.token].ok
            /\ tm.expiry = issued[tm.token].expiry
\* A call found a cached token at the very second of its expiry, sent a
\* refresh request and returned the token issued in its place.
C14_Witness ==
    \E t \in Threads :
        /\ th[t].pc = "done" /\ th[t].refreshed
        /\ th[t].seen.token # NoToken
        /\ th[t].seen.time = th[t].seen.expiry
        /\ th[t].seen.time > 0
        /\ th[t].result > th[t].seen.token

\* The token of entry j had not reached its stored expiry when an earlier
\* entry was sent with it, and had when entry j was sent.
ExpiredSince(c, i, j) ==
    /\ i < j
    /\ Authenticated(c[i]) /\ c[i].token = c[j].token
    /\ c[i].at < issued[c[j].token].expiry
    /\ c[j].at >= issued[c[j].token].expiry

\* C15: within a move_file call every authenticated request is sent with
\* headers that get_headers returned for that very request, so no request
\* carries a token that expired after an earlier step of the move.
C15_HeadersBeforeEveryCall ==
    \A p \in Callers :
        \A j \in 1..Len(mv[p].calls) :
            Authenticated(mv[p].calls[j]) =>
                /\ mv[p].calls[j].fresh
                /\ \A i \in 1..Len(mv[p].calls) : ~ExpiredSince(mv[p].calls, i, j)

\* ------------------------------------------------------------ size guard
\* r is the floor of available * num / den.
IsFloor(r, available, num, den) ==
    r * den <= available * num /\ available * num < (r + 1) * den
\* The size check of the move has been made.
SizeChecked(f) == CallOk(f, "download") /\ f.pc # "step2"
\* The move was refused as too large.
Refused(f) == f.e = <<MemoryError>>

\* C16: get_dynamic_max_safe_size(fraction) is the floor of the available
\* memory times the fraction; for the same available memory it does not
\* decrease when the fraction grows; at fraction 1 it is the available
\* memory; and move_file refuses a file exactly when its length is greater
\* than the ceiling for the fraction 0.2, so a file as long as the ceiling
\* passes.
C16_SizeGuard ==
    /\ \A i \in 1..Len(sg) :
            /\ IsFloor(sg[i].size, sg[i].available, sg[i].num, sg[i].den)
            /\ sg[i].num = sg[i].den => sg[i].size = sg[i].available
    /\ \A i, j \in 1..Len(sg) :
            (/\ sg[i].available = sg[j].available
             /\ sg[i].num * sg[j].den <= sg[j].num * sg[i].den) =>
                sg[i].size <= sg[j].size
    /\ \A p \in Callers :
            SizeChecked(mv[p]) =>
                /\ IsFloor(mv[p].max_safe_size, mv[p].available, 2, 10)
                /\ Refused(mv[p]) <=> Len(mv[p].file_bytes) > mv[p].max_safe_size
                /\ Refused(mv[p]) => ~Sent(mv[p], "dest_check") /\ ~Sent(mv[p], "patch")
\* The guard has returned 0 for 6 bytes at the fraction 0.1 and then 1 for
\* the same 6 bytes at the default fraction, neither product being whole.
C16_Witness ==
    /\ Len(sg) = 2
    /\ sg[1].available = 6 /\ sg[2].available = 6
    /\ sg[2].num = 1 /\ sg[2].den = 10 /\ sg[2].size = 0
    /\ sg[1].num = 2 /\ sg[1].den = 10 /\ sg[1].size = 1

\* ------------------------------------------------------ uploads and reads
\* The last operation is a read, answered by the service, of a path whose
\* last successful upload was made by the matching upload function.
ReadAfterUpload ==
    /\ io.last # <<>>
    /\ io.last[1].served
    /\ io.written[io.last[1].path] # <<>>
    /\ io.written[io.last[1].path][1].kind = io.last[1].kind
Uploaded == io.written[io.last[1].path][1]
\* The value comes back from its text as it went in.
Faithful(kind, value) ==
    IF kind = "json" THEN json_loads(json_dumps(value)) = value
    ELSE read_csv(to_csv(value)) = value
\* The name is one the reader of that kind accepts.
Readable(kind, path) == kind = "csv" => EndsWithCsv(path[2])

\* C17 (as stated): a read that follows a successful upload to the same
\* folder and name, with no other write to it in between, returns a value
\* equal to the uploaded one, whatever the folder, name and value.
C17_RoundTripAnyValue ==
    ReadAfterUpload =>
        /\ io.last[1].ok
        /\ io.last[1].result = <<Uploaded.value>>

\* C17 (amended): the read returns a value equal to the uploaded one when
\* the value is one its text form gives back unchanged and, for a frame,
\* the name ends in .csv; the file always holds the text of the latest
\* successful upload, whatever was there before.
C17_RoundTripFaithfulValue ==
    /\ \A q \in UploadPaths :
            io.written[q] # <<>> =>
                io.drive[q] = <<IF io.written[q][1].kind = "json"
                                THEN json_dumps(io.written[q][1].value)
                                ELSE to_csv(io.written[q][1].value)>>
    /\ (/\ ReadAfterUpload
        /\ Faithful(Uploaded.kind, Uploaded.value)
        /\ Readable(Uploaded.kind, io.last[1].path)) =>
            /\ io.last[1].ok
            /\ io.last[1].result = <<Uploaded.value>>
\* A dictionary with a string key was uploaded over a file with other
\* content and read back equal.
C17_Witness ==
    /\ ReadAfterUpload
    /\ Uploaded.kind = "json" /\ Uploaded.replaced
    /\ Uploaded.value.key = StrOf("1")
    /\ io.last[1].ok
    /\ io.last[1].result = <<Uploaded.value>>

\* ------------------------------------------------------- recovery, again
\* The download succeeded and a later step of the try block failed.
FailedAfterDownload(f) == CallOk(f, "download") /\ f.e # <<>>

\* C18: when the download succeeded, whatever the length of the content,
\* and a later step failed, the recovery upload to the source path is sent
\* before the caller has the error, and the caller sees its outcome.
C18_RecoveryAfterAnyDownload ==
    \A p \in Callers :
        (Done(mv[p]) /\ FailedAfterDownload(mv[p])) =>
            /\ Sent(mv[p], "recovery")
            /\ mv[p].calls[Len(mv[p].calls)].target = <<"path", src_path(mv[p])>>
            /\ CallFailed(mv[p], "recovery") <=> Fatal(mv[p])

\* The token was one the manager hands out at that time: issued by the
\* endpoint, and either before its stored expiry or issued at that moment.
HandedOutAt(token, time) ==
    /\ token \in 1..Len(issued)
    /\ issued[token].ok
    /\ time < issued[token].expiry \/ time = issued[token].at

\* C19: a recovery is one PUT, the last call of the attempt, of the bytes
\* downloaded in this attempt to the source path, with Content-Type
\* application/octet-stream and headers that get_headers returned after
\* the failure; the attempt sends at most one PATCH and at most one PUT.
C19_RecoveryIsOnePut ==
    \A p \in Callers :
        /\ Cardinality(CallsOf(mv[p], "patch")) <= 1
        /\ Cardinality(CallsOf(mv[p], "recovery")) <= 1
        /\ Cardinality(MutatingCalls(mv[p])) <= 2
        /\ \A i \in CallsOf(mv[p], "recovery") :
                LET c == mv[p].calls[i]
                IN  /\ i = Len(mv[p].calls)
                    /\ c.method = "PUT"
                    /\ c.target = <<"path", <<mv[p].source_folder, mv[p].file_name>>>>
                    /\ CallOk(mv[p], "download")
                    /\ c.data = <<mv[p].file_bytes>>
                    /\ mv[p].file_bytes = mv[p].pre[src_path(mv[p])].content
                    /\ c.content_type = "application/octet-stream"
                    /\ c.fresh /\ HandedOutAt(c.token, c.at)
                    /\ mv[p].e # <<>>
\* A PATCH to another path failed and the recovery PUT was sent with a token
\* issued after the one the PATCH carried.
C19_Witness ==
    \E p \in Callers :
        /\ CallFailed(mv[p], "patch") /\ Sent(mv[p], "recovery")
        /\ dest_path(mv[p]) # src_path(mv[p])
        /\ mv[p].calls[Len(mv[p].calls)].token > mv[p].headers
        /\ mv[p].calls[Len(mv[p].calls)].at > 0

\* ------------------------------------------------------- order of steps
\* The operations of the entries of a record of calls, in order.
Ops(calls) == [i \in 1..Len(calls) |-> calls[i].op]
StepOrder == <<"get_document", "download", "dest_check", "dest_folder", "patch">>
\* The terminal outcomes of an attempt.
Relocated(f) == f.pc = "returned" /\ f.result # <<>>
FailedNoRecovery(f) == f.pc = "raised" /\ ~Sent(f, "recovery")
Recovered(f) == f.pc = "raised" /\ CallOk(f, "recovery") /\ f.raised = f.e
RecoveryFailed(f) == f.pc = "raised" /\ CallFailed(f, "recovery") /\ Fatal(f)
Outcomes(f) ==
    {o \in {"relocated", "failed", "recovered", "recovery_failed"} :
        \/ o = "relocated" /\ Relocated(f)
        \/ o = "failed" /\ FailedNoRecovery(f)
        \/ o = "recovered" /\ Recovered(f)
        \/ o = "recovery_failed" /\ RecoveryFailed(f)}

\* C20: the PATCH is sent only after the metadata fetch, the download, the
\* size check, the destination probe and the destination-folder lookup of
\* the same attempt have succeeded, in that order; it names the item id of
\* the metadata fetch and the parent id of the folder lookup; every attempt
\* ends in exactly one of the four outcomes, after at most six calls.
C20_StepOrder ==
    \A p \in Callers :
        LET f == mv[p]
        IN  /\ Sent(f, "patch") =>
                /\ SubSeq(Ops(f.calls), 1, 5) = StepOrder
                /\ f.calls[1].status = 200
                /\ f.calls[2].status = 200
                /\ ~WasTooLarge(f)
                /\ f.calls[3].status = 404
                /\ f.calls[4].status = 200
                /\ f.calls[5].target = <<"item", f.pre[src_path(f)].id>>
                /\ f.calls[5].data = <<[parentReference |-> FolderId(f.dest_folder),
                                        name |-> f.dest_file_name]>>
            /\ Len(f.calls) <= 6
            /\ \A i, j \in 1..Len(f.calls) : f.calls[i].op = f.calls[j].op => i = j
            /\ Done(f) => Cardinality(Outcomes(f)) = 1

\* ------------------------------------------------------------ singleton
\* The answers of the endpoint that carried a token.
Granted == {n \in 1..Len(issued) : issued[n].ok}
\* The thread has the instance that its call of TokenManager() returned.
HasInstance(t) == sm.fr[t].pc = "returned"

\* C21: however the calls of TokenManager() interleave, __init__ runs once
\* and every call returns the same instance, so the callers share one
\* token and expiry: a token the endpoint granted is never lost to a second
\* construction, and is what the other callers are given.
C21_Singleton ==
    /\ sm.inits <= 1
    /\ sm.instances # 0 => sm.instances = 1 /\ sm.inits = 1
    /\ \A t \in Threads :
            HasInstance(t) => sm.fr[t].result = 1 /\ sm.inits = 1
    /\ \A t, u \in Threads :
            (HasInstance(t) /\ HasInstance(u)) => sm.fr[t].result = sm.fr[u].result
    /\ Granted # {} =>
            /\ tm.token \in Granted
            /\ \A n \in Granted : n <= tm.token
            /\ tm.expiry = issued[tm.token].expiry
    /\ \A t \in Threads :
            (th[t].pc = "done" /\ ~th[t].refreshed) => th[t].result \in Granted
\* Two threads called TokenManager() while nothing was constructed; one ran
\* __init__, the other found the instance; the first got a token from the
\* endpoint and the second was given the same token without a request.
C21_Witness ==
    \E t, u \in Threads :
        /\ HasInstance(t) /\ HasInstance(u)
        /\ sm.fr[t].instance = 1 /\ sm.fr[u].instance = 0
        /\ sm.fr[t].result = 1 /\ sm.fr[u].result = 1
        /\ th[t].pc = "done" /\ th[t].refreshed
        /\ th[u].pc = "done" /\ ~th[u].refreshed
        /\ th[u].result = th[t].result

\* -------------------------------------------------------- failed refresh
\* The step in which the refresh request of thread t fails.
RefreshFails(t) == th[t].pc = "refreshing" /\ th'[t].pc = "raised"
\* The step in which thread u, having waited, makes its check under the lock.
ChecksToken(u) == th[u].pc = "waiting" /\ th'[u].pc # "waiting"

\* C22: when the refresh request fails, get_token raises without a token,
\* the cached token and expiry stay as they were, and the lock is released;
\* the lock is held only while a request is in flight, and the next call
\* that finds the token absent or expired sends the request again.
C22_FailedRefresh ==
    [][/\ \A t \in Threads :
            RefreshFails(t) =>
                /\ tm' = tm
                /\ tm'.token = th[t].seen.token /\ tm'.expiry = th[t].seen.expiry
                /\ tm_lock' = 0
                /\ th'[t].result = NoToken
                /\ Len(issued') = Len(issued) + 1 /\ ~issued'[Len(issued')].ok
       /\ tm_lock' # 0 => th'[tm_lock'].pc = "refreshing"
       /\ \A u \in Threads :
            (ChecksToken(u) /\ NeedsRefresh(tm.token, tm.expiry, now)) =>
                th'[u].pc = "refreshing" /\ th'[u].refreshed]_vars
\* A refresh request failed for one thread with nothing cached; another
\* thread called get_token afterwards, sent the request again and returned
\* the token it was granted.
C22_Witness ==
    \E t, u \in Threads :
        /\ th[t].pc = "raised" /\ th[t].seen.token = NoToken
        /\ Len(issued) = 2 /\ ~issued[1].ok /\ issued[2].ok
        /\ th[u].pc = "done" /\ th[u].refreshed
        /\ th[u].answers_at_call = 1
        /\ th[u].result = 2 /\ tm.token = 2
====
